---- MODULE Spec2Model ----
(***************************************************************************)
(* The PIVOT table function of src/pivot.cpp: the session key map          *)
(* (PivotMapTable), the schema declared at Describe, the map built at      *)
(* Start, and the per-row processor (PivotClass::process / flush).         *)
(***************************************************************************)
EXTENDS Integers, Sequences, FiniteSets, TLC

(* ------------------------------ bounds --------------------------------- *)
\* rows returned by the column_list catalog query
MaxCat == 3
\* number of GROUPCOL column references
MaxGrp == 1
\* number of PIVOTVAL column references
MaxVal == 2
\* input rows handed to one processor
MaxRows == 2
\* rows put into the row store by one processor
MaxPuts == 2
\* whole intervals between the base and the input of a normalize_time call
MaxSteps == 2

(* ---------------------------- type tags -------------------------------- *)
\* vdb_udf type tags; the numbers only have to be distinct.  TypeNone is
\* the 0 the PivotMapTable constructor stores, TypeBool stands for any tag
\* the switch statements do not name.
TypeNone == 0
TypeTimeStamp == 1
TypeBigInt == 2
TypeNumeric == 3
TypeInt == 4
TypeDate == 5
TypeSmallInt == 6
TypeFloat4 == 7
TypeFloat8 == 8
TypeVarChar == 9
TypeBpChar == 10
TypeBool == 11

\* type tags the model draws column types from
ColTypes == {TypeInt, TypeVarChar, TypeBool}

\* declared length of a column of the given type
ColLen(t) == IF t = TypeVarChar THEN 16 ELSE IF t = TypeInt THEN 4 ELSE 1

(* ------------------------------ cells ---------------------------------- *)
\* A cell of a row is an integer: a positive datum, NullCell for SQL NULL,
\* or Uninit for a slot of an allocated row that nothing has written yet.
NullCell == 0
Uninit == -1

\* data of the pivot column and of catalog column 0
KeyData == {1, 2}

(* ------------------------- Value Key Encoder --------------------------- *)
Digit(d) ==
    CASE d = 0 -> "0" [] d = 1 -> "1" [] d = 2 -> "2" [] d = 3 -> "3"
      [] d = 4 -> "4" [] d = 5 -> "5" [] d = 6 -> "6" [] d = 7 -> "7"
      [] d = 8 -> "8" [] d = 9 -> "9"

RECURSIVE Dec(_)
\* decimal digits of a non-negative integer
Dec(n) == IF n < 10 THEN Digit(n) ELSE Dec(n \div 10) \o Digit(n % 10)

\* ostream << of an integer (the model's data are far below the 64-bit
\* range, where operator<<(__int128_t) prints (long)bigint)
StreamOut(n) == IF n < 0 THEN "-" \o Dec(0 - n) ELSE Dec(n)

\* RowDesc::getValueAsString of a character cell: the text of datum d
getValueAsString(d) == Dec(d)

\* PivotMapTable::add, the switch on m_pivotcol_type and "key = keycvt.str()"
AddKey(type, d) ==
    CASE type = TypeTimeStamp -> StreamOut(d)
      [] type = TypeBigInt -> StreamOut(d)
      [] type = TypeNumeric -> StreamOut(d)
      [] type = TypeInt -> StreamOut(d)
      [] type = TypeDate -> StreamOut(d)
      [] type = TypeSmallInt -> StreamOut(d)
      [] type = TypeFloat4 -> StreamOut(d)
      [] type = TypeFloat8 -> StreamOut(d)
      [] type = TypeVarChar -> getValueAsString(d)
      [] type = TypeBpChar -> getValueAsString(d)
      [] OTHER -> ""

\* PivotClass::process, the switch on m_pivotParameters.pivotColType
ProcessKey(type, d) ==
    CASE type = TypeTimeStamp -> StreamOut(d)
      [] type = TypeBigInt -> StreamOut(d)
      [] type = TypeNumeric -> StreamOut(d)
      [] type = TypeInt -> StreamOut(d)
      [] type = TypeDate -> StreamOut(d)
      [] type = TypeSmallInt -> StreamOut(d)
      [] type = TypeFloat4 -> StreamOut(d)
      [] type = TypeFloat8 -> StreamOut(d)
      [] type = TypeVarChar -> getValueAsString(d)
      [] type = TypeBpChar -> getValueAsString(d)
      [] OTHER -> ""

(* --------------------------- PivotMapTable ----------------------------- *)
\* the empty unordered_map
EmptyMap == [k \in {} |-> 0]

\* PivotMapTable(): all metadata 0, no entries
NewMapTable ==
    [m_key_col_idx |-> 0, m_value_type |-> TypeNone, m_value_len |-> 0,
     m_pivotcol_type |-> TypeNone, m_pivotcol_len |-> 0,
     m_map_values |-> EmptyMap]

\* mutant: an insert that replaces the value of an existing key
MapInsertOverwrite(m, k, v) == (k :> v) @@ m

\* unordered_map::insert: an existing key keeps its value
MapInsert(m, k, v) == IF k \in DOMAIN m THEN m ELSE (k :> v) @@ m

setPivotColType(t, v, len) ==
    [t EXCEPT !.m_pivotcol_type = v, !.m_pivotcol_len = len]

\* mutant: an add that stores the ordinal after the increment
addNextOrdinal(t, d, colpos) ==
    [t EXCEPT !.m_map_values = MapInsert(@, AddKey(t.m_pivotcol_type, d), colpos + 1)]

\* mutant: an add through operator[], where a later row replaces the offset
addLastWins(t, d, colpos) ==
    [t EXCEPT !.m_map_values = (AddKey(t.m_pivotcol_type, d) :> colpos) @@ @]

\* PivotMapTable::add(row_p, colpos); d is column 0 of the catalog row
add(t, d, colpos) ==
    [t EXCEPT !.m_map_values = MapInsert(@, AddKey(t.m_pivotcol_type, d), colpos)]

\* mutant: a lookup that answers offset 0 for a key the map does not hold
findcolumnoffsetOrZero(t, key) ==
    IF key \in DOMAIN t.m_map_values THEN t.m_map_values[key] ELSE 0

\* PivotMapTable::findcolumnoffset: the offset of the key, -1 if absent
findcolumnoffset(t, key) ==
    IF key \in DOMAIN t.m_map_values THEN t.m_map_values[key] ELSE -1

getMapSize(t) == Cardinality(DOMAIN t.m_map_values)

(* ----------------------- serialize / deserialize ----------------------- *)
\* An item of a Serializer stream: an int_t or a std::string.
IntItem(n) == [i |-> n, s |-> ""]
StrItem(str) == [i |-> 0, s |-> str]

\* the iteration orders an unordered_map with key set S can have
Orders(S) ==
    {o \in [1..Cardinality(S) -> S] : \A a, b \in 1..Cardinality(S) : a # b => o[a] # o[b]}

RECURSIVE SerEntries(_, _, _)
\* the loop of PivotMapTable::serialize from position pos of the iteration
SerEntries(m, order, pos) ==
    IF pos > Len(order) THEN <<>>
    ELSE <<StrItem(order[pos]), IntItem(m[order[pos]])>> \o SerEntries(m, order, pos + 1)

\* PivotMapTable::serialize; order is the map's iteration order
serialize(t, order) ==
    <<IntItem(t.m_pivotcol_type), IntItem(t.m_pivotcol_len), IntItem(t.m_value_type),
      IntItem(t.m_value_len), IntItem(Cardinality(DOMAIN t.m_map_values))>>
      \o SerEntries(t.m_map_values, order, 1)

RECURSIVE DeserEntries(_, _, _, _)
\* the loop of PivotMapTable::deserialize: entries i..entries-1 read from s
DeserEntries(m, s, i, entries) ==
    IF i >= entries THEN m
    ELSE DeserEntries(MapInsert(m, s[6 + 2 * i].s, s[7 + 2 * i].i), s, i + 1, entries)

\* mutant: the metadata read back in another order than it was written
deserializeSwapped(t, s) ==
    [t EXCEPT !.m_pivotcol_type = s[1].i, !.m_pivotcol_len = s[3].i,
              !.m_value_type = s[2].i, !.m_value_len = s[4].i,
              !.m_map_values = DeserEntries(@, s, 0, s[5].i)]

\* PivotMapTable::deserialize into the map table t
deserialize(t, s) ==
    [t EXCEPT !.m_pivotcol_type = s[1].i, !.m_pivotcol_len = s[2].i,
              !.m_value_type = s[3].i, !.m_value_len = s[4].i,
              !.m_map_values = DeserEntries(@, s, 0, s[5].i)]

(* -------------------------- named parameters --------------------------- *)
\* Input table columns: the GROUPCOL columns 0..g-1, the PIVOTCOL column g,
\* the PIVOTVAL columns g+1..g+v.  A GROUPCOL that is a constant names no
\* column: fillColumnIndexVector leaves grpCols empty (g = 0).
GrpColsOf(g) == [i \in 1..g |-> i - 1]
ValColsOf(g, v) == [i \in 1..v |-> g + i]

GoodParams(g, v) ==
    [pivotcol |-> "colref", groupcol |-> "colref", column_list |-> "string",
     pivotval |-> "colref", ngrp |-> g, nval |-> v]

\* the named-parameter sets of the model: the well-formed ones and one
\* variant per check of validate
ParamSets ==
    {GoodParams(g, v) : g \in 1..MaxGrp, v \in 1..MaxVal}
    \cup {[GoodParams(1, 1) EXCEPT !.pivotcol = k] : k \in {"absent", "const"}}
    \cup {[GoodParams(1, 1) EXCEPT !.groupcol = "absent"],
          [GoodParams(0, 1) EXCEPT !.groupcol = "const"],
          [GoodParams(1, 1) EXCEPT !.column_list = "absent"]}
    \cup {[GoodParams(1, 1) EXCEPT !.pivotval = k] : k \in {"absent", "const"}}

NoParameters ==
    [grpCols |-> <<>>, pivotColIdx |-> 0, pivotColType |-> TypeNone,
     pivotValCols |-> <<>>, numpivotValCols |-> 0, collistquery |-> FALSE]

\* PivotClass::validate: the first failing check raises and ends the
\* command; otherwise the PivotParameters it filled in.  pct is the type of
\* the input column PIVOTCOL names.
validate(p, pct, start_cmd) ==
    IF p.pivotcol = "absent" THEN [err |-> "ParameterError", pp |-> NoParameters]
    ELSE IF p.pivotcol # "colref" THEN [err |-> "ParameterError", pp |-> NoParameters]
    ELSE IF p.groupcol = "absent" THEN [err |-> "ParameterError", pp |-> NoParameters]
    ELSE IF p.column_list = "absent" THEN [err |-> "ParameterError", pp |-> NoParameters]
    ELSE IF p.pivotval = "absent" THEN [err |-> "ParameterError", pp |-> NoParameters]
    ELSE IF p.pivotval = "const" THEN [err |-> "ParameterError", pp |-> NoParameters]
    ELSE [err |-> "none",
          pp |-> [grpCols |-> GrpColsOf(p.ngrp),
                  pivotColIdx |-> p.ngrp,
                  pivotColType |-> IF start_cmd THEN TypeNone ELSE pct,
                  pivotValCols |-> ValColsOf(p.ngrp, p.nval),
                  numpivotValCols |-> p.nval,
                  collistquery |-> TRUE]]

(* ------------------------------ catalog -------------------------------- *)
\* label column c (1-based) of the i-th catalog row, whose column 0 holds d
LabelOf(i, d, c) == "r" \o Dec(i) \o "k" \o Dec(d) \o "c" \o Dec(c)

\* the i-th row of a column_list query result with ncols columns
CatRow(i, d, ncols) ==
    [key |-> d, labels |-> [c \in 1..(ncols - 1) |-> LabelOf(i, d, c)]]

RECURSIVE SeqsUpTo(_, _)
\* the sequences over S of length at most n
SeqsUpTo(S, n) ==
    IF n = 0 THEN {<<>>}
    ELSE LET shorter == SeqsUpTo(S, n - 1)
         IN  shorter \cup {Append(q, x) : q \in {r \in shorter : Len(r) = n - 1}, x \in S}

\* a result of the column_list query: the type of column 0, the number of
\* columns, whether the label columns are character typed, and the rows
CatalogOf(t, ncols, strLabels, keys) ==
    [type |-> t, length |-> ColLen(t), ncols |-> ncols, strLabels |-> strLabels,
     rows |-> [i \in 1..Len(keys) |-> CatRow(i, keys[i], ncols)]]

\* the key columns of the query results: the data of KeyData are
\* interchangeable, so a non-empty result starts with datum 1
KeyLists == {keys \in SeqsUpTo(KeyData, MaxCat) : keys # <<>> => keys[1] = 1}

\* the well-formed results for v value columns
GoodCatalogs(v) ==
    {CatalogOf(t, v + 1, TRUE, keys) : t \in ColTypes, keys \in KeyLists}

\* results Describe rejects: too few columns, a label column that is no string
BadCatalogs(v) ==
    {CatalogOf(TypeInt, v, TRUE, <<1>>), CatalogOf(TypeInt, v + 1, FALSE, <<1>>)}

(* ------------------------------- state --------------------------------- *)
VARIABLES
    npv,        \* the named parameters of the PIVOT call
    inType,     \* type of the input column PIVOTCOL names
    catalog,    \* what the column_list query returns
    phase,      \* host lifecycle: "plan", "described", "started", "finalized",
                \* "destroyed", "shutdown"
    err,        \* the error raised by throwError, "none" if none
    aborted,    \* the host has sent Abort
    plan,       \* what Describe declared
    session,    \* the session data (serialized PivotMapTable), <<>> if unset
    functor,    \* the PivotClass instance Create assigned
    store,      \* the rows put into the row store
    rowsIn,     \* number of rows handed to process
    grpRows,    \* history: the rows processed since Create or the last flush
    ser,        \* a PivotMapTable taken through serialize and deserialize
    heap,       \* the row store's count of rows allocated and of rows freed
    workers,    \* the processors of the workers a session is distributed to
    calc        \* a call of a scalar function: its arguments and its result

vars == <<ser, npv, inType, catalog, phase, err, aborted, plan, session, functor, store,
          rowsIn, grpRows, heap, workers, calc>>

NoPlan ==
    [out |-> <<>>, partitionBy |-> <<>>, orderBy |-> <<>>,
     globalPartitioning |-> FALSE, sessionCommands |-> FALSE]

\* no map table is being distributed
NoSer == [pc |-> "off", src |-> NewMapTable, stream |-> <<>>, dst |-> NewMapTable]

\* the row store has allocated no row yet
NoHeap == [allocs |-> 0, frees |-> 0]

\* no session is distributed to workers
NoWorkers == <<>>

\* no scalar function is being called
NoCalc == [pc |-> "off", fn |-> "none", args |-> <<>>, result |-> <<>>]

NoFunctor ==
    [alive |-> FALSE, m_first_time |-> FALSE, m_out_rd |-> <<>>,
     m_map |-> NewMapTable, m_pivotParameters |-> NoParameters]

Init ==
    /\ \/ /\ npv \in {GoodParams(g, v) : g \in 1..MaxGrp, v \in 1..MaxVal}
          /\ inType \in ColTypes
          /\ catalog \in GoodCatalogs(npv.nval)
       \/ /\ npv \in ParamSets
          /\ inType = TypeInt
          /\ catalog = CatalogOf(TypeInt, npv.nval + 1, TRUE, <<1>>)
       \/ /\ npv = GoodParams(1, 1)
          /\ inType = TypeInt
          /\ catalog \in BadCatalogs(1)
    /\ ser = NoSer
    /\ phase = "plan"
    /\ err = "none"
    /\ aborted = FALSE
    /\ plan = NoPlan
    /\ session = <<>>
    /\ functor = NoFunctor
    /\ store = <<>>
    /\ rowsIn = 0
    /\ grpRows = <<>>
    /\ heap = NoHeap
    /\ workers = NoWorkers
    /\ calc = NoCalc

(* ------------------------------ Describe ------------------------------- *)
\* copyColumnSchema(inColIdx): an output column cloned from an input column
CopiedColumn(inColIdx) == [name |-> "", src |-> inColIdx]

\* addOutputColumn(pivotValColDescs[c]...) with the name assigned from val
AddedColumn(desc, val) == [name |-> val, src |-> desc]

RECURSIVE DescribeRowsDistinct(_, _, _)
\* mutant: a fetch loop that declares a block only for the first row of a key
DescribeRowsDistinct(rows, pp, i) ==
    IF i > Len(rows) THEN <<>>
    ELSE IF \E j \in 1..(i - 1) : rows[j].key = rows[i].key
    THEN DescribeRowsDistinct(rows, pp, i + 1)
    ELSE [c \in 1..pp.numpivotValCols |-> AddedColumn(pp.pivotValCols[c], rows[i].labels[c])]
         \o DescribeRowsDistinct(rows, pp, i + 1)

RECURSIVE DescribeRows(_, _, _)
\* the fetch loop of DescribeCmd from catalog row i on: one output column
\* per value column for every fetched row
DescribeRows(rows, pp, i) ==
    IF i > Len(rows) THEN <<>>
    ELSE [c \in 1..pp.numpivotValCols |-> AddedColumn(pp.pivotValCols[c], rows[i].labels[c])]
         \o DescribeRows(rows, pp, i + 1)

DescribeCmd ==
    /\ phase = "plan"
    /\ err = "none"
    /\ LET v == validate(npv, inType, FALSE)
           pp == v.pp
           grp == [i \in 1..Len(pp.grpCols) |-> CopiedColumn(pp.grpCols[i])]
           declared == [out |-> grp, partitionBy |-> pp.grpCols, orderBy |-> pp.grpCols,
                        globalPartitioning |-> TRUE, sessionCommands |-> FALSE]
       IN  IF v.err # "none"
           THEN /\ err' = v.err
                /\ UNCHANGED <<plan, phase>>
           ELSE IF catalog.ncols < pp.numpivotValCols + 1 \/ ~catalog.strLabels
           THEN /\ err' = "SchemaError"
                /\ plan' = declared
                /\ UNCHANGED phase
           ELSE /\ plan' = [declared EXCEPT
                              !.out = grp \o DescribeRows(catalog.rows, pp, 1),
                              !.sessionCommands = TRUE]
                /\ phase' = "described"
                /\ UNCHANGED err
    /\ UNCHANGED <<calc, workers, heap, ser, npv, inType, catalog, aborted, session, functor, store, rowsIn, grpRows>>

(* ------------------------------- Start --------------------------------- *)
RECURSIVE StartRows(_, _, _)
\* the fetch loop of StartCmd: tblMap.add(rowp, coloffset++) from row i on
StartRows(t, rows, i) ==
    IF i > Len(rows) THEN t
    ELSE StartRows(add(t, rows[i].key, i - 1), rows, i + 1)

\* the PivotMapTable StartCmd has built when it reaches setSessionData
StartMap(cat) ==
    StartRows(setPivotColType(NewMapTable, cat.type, cat.length), cat.rows, 1)

StartCmd ==
    /\ phase = "described"
    /\ err = "none"
    /\ ~aborted
    /\ LET v == validate(npv, inType, TRUE)
           tblMap == StartMap(catalog)
       IN  IF v.err # "none"
           THEN /\ err' = v.err
                /\ UNCHANGED <<session, phase>>
           ELSE /\ \E order \in Orders(DOMAIN tblMap.m_map_values) :
                       session' = serialize(tblMap, order)
                /\ phase' = "started"
                /\ UNCHANGED err
    /\ UNCHANGED <<calc, workers, heap, ser, npv, inType, catalog, aborted, plan, functor, store, rowsIn, grpRows>>

(* ------------------------------- Create -------------------------------- *)
\* RowStore::alloc: a row of the declared output schema whose slots
\* 0..width-1 nothing has written yet
alloc(width) == [slot \in 0..(width - 1) |-> Uninit]

\* the row store's books after m_store.alloc() and after m_store.free()
storeAlloc(h) == [h EXCEPT !.allocs = @ + 1]
storeFree(h) == [h EXCEPT !.frees = @ + 1]

\* PivotClass::PivotClass: m_first_time(true), m_out_rd = m_store.alloc(),
\* arg.getSessionData(m_map) restores the member map from the session data
NewPivotClass(pp) ==
    [alive |-> TRUE, m_first_time |-> TRUE, m_out_rd |-> alloc(Len(plan.out)),
     m_map |-> deserialize(NewMapTable, session), m_pivotParameters |-> pp]

CreateCmd ==
    /\ phase = "started"
    /\ err = "none"
    /\ ~aborted
    /\ ~functor.alive
    /\ LET v == validate(npv, inType, FALSE)
       IN  IF v.err # "none"
           THEN /\ err' = v.err
                /\ UNCHANGED <<functor, grpRows, heap>>
           ELSE /\ functor' = NewPivotClass(v.pp)
                /\ heap' = storeAlloc(heap)
                /\ grpRows' = <<>>
                /\ UNCHANGED err
    /\ UNCHANGED <<calc, workers, ser, npv, inType, catalog, phase, aborted, plan, session, store, rowsIn>>

(* ------------------------------- process ------------------------------- *)
\* the input row with group datum gd, pivot cell p and value datum x: group
\* column i holds 10gd+i, value column c holds 100x+c
InputRow(g, v, gd, p, x) ==
    [col \in 0..(g + v) |->
        IF col < g THEN 10 * gd + col
        ELSE IF col = g THEN p
        ELSE 100 * x + (col - g - 1)]

\* The host delivers the input partitioned by the grouping columns: the
\* rows between two flushes share their group datum, the next group has
\* another one.  The n-th row of the input carries value datum n, so no two
\* rows have a value in common; its pivot cell is any key datum or null.
InputRows(g, v, gd, n) ==
    {InputRow(g, v, gd, p, n) : p \in KeyData \cup {NullCell}}

\* mutant: the first-row branch without "m_first_time = false"
FirstRowKeepFlag(f, rd_in) ==
    LET pp == f.m_pivotParameters
        numGrpCols == Len(pp.grpCols)
        nulls == getMapSize(f.m_map) * pp.numpivotValCols
    IN  [f EXCEPT
           !.m_out_rd = [slot \in DOMAIN @ |->
                           IF slot < numGrpCols THEN rd_in[pp.grpCols[slot + 1]]
                           ELSE IF slot < numGrpCols + nulls THEN NullCell
                           ELSE @[slot]]]

\* process, "if (m_first_time)": the grouping columns are copied to the
\* leading slots and getMapSize() * numpivotValCols slots are set to null
FirstRow(f, rd_in) ==
    LET pp == f.m_pivotParameters
        numGrpCols == Len(pp.grpCols)
        nulls == getMapSize(f.m_map) * pp.numpivotValCols
    IN  [f EXCEPT
           !.m_out_rd = [slot \in DOMAIN @ |->
                           IF slot < numGrpCols THEN rd_in[pp.grpCols[slot + 1]]
                           ELSE IF slot < numGrpCols + nulls THEN NullCell
                           ELSE @[slot]],
           !.m_first_time = FALSE]

RECURSIVE CopyValuesNoBase(_, _, _, _, _)
\* mutant: the copy loop with the base outIdx left out of thiscolpos
CopyValuesNoBase(out, pp, rd_in, myoffset, c) ==
    LET numGrpCols == Len(pp.grpCols)
        thiscolpos == (myoffset * pp.numpivotValCols) + c
    IN  IF c >= pp.numpivotValCols THEN [row |-> out, err |-> "none"]
        ELSE IF thiscolpos < numGrpCols THEN [row |-> out, err |-> "OffsetRangeError"]
        ELSE CopyValuesNoBase([out EXCEPT ![thiscolpos] = rd_in[pp.pivotValCols[c + 1]]],
                              pp, rd_in, myoffset, c + 1)

RECURSIVE CopyValues(_, _, _, _, _)
\* process, the loop over c_coloffset from c on: the row and the error the
\* loop ends with
CopyValues(out, pp, rd_in, myoffset, c) ==
    LET numGrpCols == Len(pp.grpCols)
        thiscolpos == numGrpCols + (myoffset * pp.numpivotValCols) + c
    IN  IF c >= pp.numpivotValCols THEN [row |-> out, err |-> "none"]
        ELSE IF thiscolpos < numGrpCols THEN [row |-> out, err |-> "OffsetRangeError"]
        ELSE CopyValues([out EXCEPT ![thiscolpos] = rd_in[pp.pivotValCols[c + 1]]],
                        pp, rd_in, myoffset, c + 1)

\* mutant: process without the isNull check of the pivot column
processNoNullCheck(f, rd_in) ==
    LET pp == f.m_pivotParameters
        f1 == IF f.m_first_time THEN FirstRow(f, rd_in) ELSE f
        key == ProcessKey(pp.pivotColType, rd_in[pp.pivotColIdx])
        myoffset == findcolumnoffset(f1.m_map, key)
        copied == CopyValues(f1.m_out_rd, pp, rd_in, myoffset, 0)
    IN  IF myoffset < 0 THEN [f |-> f1, err |-> "PivotKeyNotFound"]
        ELSE [f |-> [f1 EXCEPT !.m_out_rd = copied.row], err |-> copied.err]

\* mutant: a lookup through unordered_map::operator[], which inserts a
\* missing key with offset 0 into the processor's map
processInsertsKey(f, rd_in) ==
    LET pp == f.m_pivotParameters
        f1 == IF f.m_first_time THEN FirstRow(f, rd_in) ELSE f
        key == ProcessKey(pp.pivotColType, rd_in[pp.pivotColIdx])
        f2 == [f1 EXCEPT !.m_map.m_map_values = MapInsert(@, key, 0)]
        myoffset == findcolumnoffset(f2.m_map, key)
        copied == CopyValues(f2.m_out_rd, pp, rd_in, myoffset, 0)
    IN  IF rd_in[pp.pivotColIdx] = NullCell THEN [f |-> f1, err |-> "NullPivotKey"]
        ELSE [f |-> [f2 EXCEPT !.m_out_rd = copied.row], err |-> copied.err]

\* PivotClass::process(arg, rd_in): the functor and the error it ends with
process(f, rd_in) ==
    LET pp == f.m_pivotParameters
        f1 == IF f.m_first_time THEN FirstRow(f, rd_in) ELSE f
        key == ProcessKey(pp.pivotColType, rd_in[pp.pivotColIdx])
        myoffset == findcolumnoffset(f1.m_map, key)
        copied == CopyValues(f1.m_out_rd, pp, rd_in, myoffset, 0)
    IN  IF rd_in[pp.pivotColIdx] = NullCell THEN [f |-> f1, err |-> "NullPivotKey"]
        ELSE IF myoffset < 0 THEN [f |-> f1, err |-> "PivotKeyNotFound"]
        ELSE [f |-> [f1 EXCEPT !.m_out_rd = copied.row], err |-> copied.err]

\* the host hands one input row to the processor
Process ==
    /\ functor.alive
    /\ phase = "started"
    /\ err = "none"
    /\ ~aborted
    /\ rowsIn < MaxRows
    /\ \E rd_in \in InputRows(npv.ngrp, npv.nval, Len(store) + 1, rowsIn + 1) :
         LET r == process(functor, rd_in)
         IN  /\ functor' = r.f
             /\ err' = r.err
             /\ grpRows' = Append(grpRows, rd_in)
    /\ rowsIn' = rowsIn + 1
    /\ UNCHANGED <<calc, workers, heap, ser, npv, inType, catalog, phase, aborted, plan, session, store>>

(* --------------------------- flush / Finalize -------------------------- *)
\* PivotClass::flush: arg.getRowStore().put(m_out_rd), and nothing else.
\* The row put is the row as it stands: a slot still Uninit has indeterminate
\* content downstream.
flush(f) == [f |-> f, put |-> f.m_out_rd]

\* The host calls flush at a group boundary: the rows of the current group
\* have been processed and the rows of the next group follow.
Flush ==
    /\ functor.alive
    /\ phase = "started"
    /\ err = "none"
    /\ ~aborted
    /\ grpRows # <<>>
    /\ Len(store) < MaxPuts
    /\ LET fl == flush(functor)
       IN  /\ functor' = fl.f
           /\ store' = Append(store, [row |-> fl.put, group |-> grpRows])
    /\ grpRows' = <<>>
    /\ UNCHANGED <<calc, workers, heap, ser, npv, inType, catalog, phase, err, aborted, plan, session, rowsIn>>

\* FinalizeCmd: ((PivotClass *)arg.getFunctor())->flush(arg), at the end of
\* the processor's input
FinalizeCmd ==
    /\ functor.alive
    /\ phase = "started"
    /\ err = "none"
    /\ ~aborted
    /\ Len(store) < MaxPuts
    /\ LET fl == flush(functor)
       IN  /\ functor' = fl.f
           /\ store' = Append(store, [row |-> fl.put, group |-> grpRows])
    /\ grpRows' = <<>>
    /\ phase' = "finalized"
    /\ UNCHANGED <<calc, workers, heap, ser, npv, inType, catalog, err, aborted, plan, session, rowsIn>>

(* -------------------- Destroy / Abort / Shutdown ----------------------- *)
\* arg.destroyFunctor(): ~PivotClass frees m_out_rd.  A session of the model
\* has one processor, so the host creates no other one afterwards.
DestroyCmd ==
    /\ functor.alive
    /\ functor' = NoFunctor
    /\ heap' = storeFree(heap)
    /\ grpRows' = <<>>
    /\ phase' = "destroyed"
    /\ UNCHANGED <<calc, workers, ser, npv, inType, catalog, err, aborted, plan, session, store, rowsIn>>

\* mutant: an Abort that hands the partially accumulated row downstream
AbortCmdFlushes ==
    /\ phase \in {"started", "finalized"}
    /\ ~aborted
    /\ aborted' = TRUE
    /\ store' = IF functor.alive
                THEN Append(store, [row |-> flush(functor).put, group |-> grpRows])
                ELSE store
    /\ UNCHANGED <<calc, workers, heap, ser, npv, inType, catalog, phase, err, plan, session,
                   functor, rowsIn, grpRows>>

\* AbortCmd has an empty body; the host has ended the query
AbortCmd ==
    /\ phase \in {"started", "finalized"}
    /\ ~aborted
    /\ aborted' = TRUE
    /\ UNCHANGED <<calc, workers, heap, ser, npv, inType, catalog, phase, err, plan, session, functor, store,
                   rowsIn, grpRows>>

\* ShutdownCmd has an empty body; the host has ended the session
ShutdownCmd ==
    /\ phase \in {"started", "destroyed"}
    /\ ~functor.alive
    /\ phase' = "shutdown"
    /\ UNCHANGED <<calc, workers, heap, ser, npv, inType, catalog, err, aborted, plan, session, functor, store,
                   rowsIn, grpRows>>

Next ==
    \/ DescribeCmd
    \/ StartCmd
    \/ CreateCmd
    \/ Process
    \/ Flush
    \/ FinalizeCmd
    \/ DestroyCmd
    \/ AbortCmd
    \/ ShutdownCmd

Spec == Init /\ [][Next]_vars

(* ------------- the session object on its way to a worker --------------- *)
\* the key strings the encoder produces from the model's data
SerKeys == {AddKey(t, d) : t \in ColTypes, d \in KeyData}

\* the map tables handed to serialize: any entries over SerKeys with
\* offsets below MaxCat, any recorded types and lengths
MapTables ==
    {[m_key_col_idx |-> 0, m_value_type |-> vt, m_value_len |-> ColLen(vt),
      m_pivotcol_type |-> pt, m_pivotcol_len |-> ColLen(pt), m_map_values |-> m] :
        vt \in {TypeNone, TypeInt, TypeVarChar}, pt \in ColTypes,
        m \in UNION {[K -> 0..(MaxCat - 1)] : K \in SUBSET SerKeys}}

InitSer ==
    /\ ser \in {[NoSer EXCEPT !.pc = "new", !.src = t] : t \in MapTables}
    /\ npv = GoodParams(1, 1)
    /\ inType = TypeInt
    /\ catalog = CatalogOf(TypeInt, 2, TRUE, <<>>)
    /\ phase = "plan"
    /\ err = "none"
    /\ aborted = FALSE
    /\ plan = NoPlan
    /\ session = <<>>
    /\ functor = NoFunctor
    /\ store = <<>>
    /\ rowsIn = 0
    /\ grpRows = <<>>
    /\ heap = NoHeap
    /\ workers = NoWorkers
    /\ calc = NoCalc

\* the host serializes the session object, in the map's iteration order
SerSerialize ==
    /\ ser.pc = "new"
    /\ \E order \in Orders(DOMAIN ser.src.m_map_values) :
         ser' = [ser EXCEPT !.pc = "serialized", !.stream = serialize(ser.src, order)]
    /\ UNCHANGED <<calc, workers, heap, npv, inType, catalog, phase, err, aborted, plan,
                   session, functor,
                   store, rowsIn, grpRows>>

\* a worker restores it into a freshly constructed PivotMapTable
SerDeserialize ==
    /\ ser.pc = "serialized"
    /\ ser' = [ser EXCEPT !.pc = "restored", !.dst = deserialize(NewMapTable, ser.stream)]
    /\ UNCHANGED <<calc, workers, heap, npv, inType, catalog, phase, err, aborted, plan,
                   session, functor,
                   store, rowsIn, grpRows>>

NextSer ==
    \/ SerSerialize
    \/ SerDeserialize

SpecSer == InitSer /\ [][NextSer]_vars

(* ------------- a session distributed to several workers ---------------- *)
\* number of workers the host hands a partition each
NumWorkers == 2
Workers == 1..NumWorkers

\* a worker before its Create: pc is "none", "running", "finalized" or
\* "destroyed"; rows are the input rows handed to its processor, cuts the
\* number of rows taken before each flush, puts the rows it has put
NoWorker == [pc |-> "none", functor |-> NoFunctor, rows |-> <<>>, cuts |-> <<>>, puts |-> <<>>]

\* the catalog results of the distributed sessions
WCatalogs == {CatalogOf(TypeInt, 2, TRUE, keys) : keys \in {<<1>>, <<1, 2>>, <<1, 1, 2>>}}

InitW ==
    /\ npv = GoodParams(1, 1)
    /\ inType = TypeInt
    /\ catalog \in WCatalogs
    /\ ser = NoSer
    /\ phase = "plan"
    /\ err = "none"
    /\ aborted = FALSE
    /\ plan = NoPlan
    /\ session = <<>>
    /\ functor = NoFunctor
    /\ store = <<>>
    /\ rowsIn = 0
    /\ grpRows = <<>>
    /\ heap = NoHeap
    /\ workers = [w \in Workers |-> NoWorker]
    /\ calc = NoCalc

\* CreateCmd on worker w: its own PivotClass, with its own m_out_rd and its
\* own m_map member restored from the session data
WCreate(w) ==
    /\ phase = "started"
    /\ err = "none"
    /\ ~aborted
    /\ workers[w].pc = "none"
    /\ LET v == validate(npv, inType, FALSE)
       IN  IF v.err # "none"
           THEN /\ err' = v.err
                /\ UNCHANGED <<workers, heap>>
           ELSE /\ workers' = [workers EXCEPT ![w].pc = "running",
                                              ![w].functor = NewPivotClass(v.pp)]
                /\ heap' = storeAlloc(heap)
                /\ UNCHANGED err
    /\ UNCHANGED <<calc, ser, npv, inType, catalog, phase, aborted, plan, session, functor,
                   store, rowsIn, grpRows>>

\* the rows of worker w's partition: its groups have their own group data,
\* the value datum alternates from row to row
WInputRows(w) ==
    {InputRow(npv.ngrp, npv.nval, 3 * w + Len(workers[w].puts), p,
              1 + (Len(workers[w].rows) % 2)) : p \in KeyData \cup {NullCell}}

\* the rows worker w has taken since its last flush
WOpenRows(w) ==
    Len(workers[w].rows)
      - (IF workers[w].cuts = <<>> THEN 0 ELSE workers[w].cuts[Len(workers[w].cuts)])

RECURSIVE WRowsIn(_)
\* the number of input rows handed to workers 1..w so far
WRowsIn(w) == IF w = 0 THEN 0 ELSE Len(workers[w].rows) + WRowsIn(w - 1)

\* the host hands one row of worker w's partition to its processor; the
\* input table has at most MaxRows rows over all partitions
WProcess(w) ==
    /\ phase = "started"
    /\ err = "none"
    /\ ~aborted
    /\ workers[w].pc = "running"
    /\ WRowsIn(NumWorkers) < MaxRows
    /\ \E rd_in \in WInputRows(w) :
         LET r == process(workers[w].functor, rd_in)
         IN  /\ workers' = [workers EXCEPT ![w].functor = r.f,
                                           ![w].rows = Append(@, rd_in)]
             /\ err' = r.err
    /\ UNCHANGED <<calc, heap, ser, npv, inType, catalog, phase, aborted, plan, session,
                   functor, store, rowsIn, grpRows>>

\* flush on worker w at a group boundary of its partition
WFlush(w) ==
    /\ phase = "started"
    /\ err = "none"
    /\ ~aborted
    /\ workers[w].pc = "running"
    /\ WOpenRows(w) > 0
    /\ Len(workers[w].puts) < MaxPuts
    /\ LET fl == flush(workers[w].functor)
       IN  workers' = [workers EXCEPT ![w].functor = fl.f,
                                      ![w].puts = Append(@, fl.put),
                                      ![w].cuts = Append(@, Len(workers[w].rows))]
    /\ UNCHANGED <<calc, heap, ser, npv, inType, catalog, phase, err, aborted, plan, session,
                   functor, store, rowsIn, grpRows>>

\* FinalizeCmd on worker w
WFinalize(w) ==
    /\ phase = "started"
    /\ err = "none"
    /\ ~aborted
    /\ workers[w].pc = "running"
    /\ Len(workers[w].puts) < MaxPuts
    /\ LET fl == flush(workers[w].functor)
       IN  workers' = [workers EXCEPT ![w].pc = "finalized",
                                      ![w].functor = fl.f,
                                      ![w].puts = Append(@, fl.put),
                                      ![w].cuts = Append(@, Len(workers[w].rows))]
    /\ UNCHANGED <<calc, heap, ser, npv, inType, catalog, phase, err, aborted, plan, session,
                   functor, store, rowsIn, grpRows>>

\* arg.destroyFunctor() on worker w
WDestroy(w) ==
    /\ workers[w].pc \in {"running", "finalized"}
    /\ workers' = [workers EXCEPT ![w].pc = "destroyed", ![w].functor = NoFunctor]
    /\ heap' = storeFree(heap)
    /\ UNCHANGED <<calc, ser, npv, inType, catalog, phase, err, aborted, plan, session,
                   functor, store, rowsIn, grpRows>>

\* ShutdownCmd once no worker holds a processor
WShutdown ==
    /\ phase = "started"
    /\ \A w \in Workers : workers[w].pc \in {"none", "destroyed"}
    /\ phase' = "shutdown"
    /\ UNCHANGED <<calc, workers, heap, ser, npv, inType, catalog, err, aborted, plan,
                   session, functor, store, rowsIn, grpRows>>

NextW ==
    \/ DescribeCmd
    \/ StartCmd
    \/ AbortCmd
    \/ WShutdown
    \/ \E w \in Workers : WCreate(w)
    \/ \E w \in Workers : WProcess(w)
    \/ \E w \in Workers : WFlush(w)
    \/ \E w \in Workers : WFinalize(w)
    \/ \E w \in Workers : WDestroy(w)

SpecW == InitW /\ [][NextW]_vars

(* ------------------- last_day (src/last-day.cpp) ----------------------- *)
\* the calls are drawn from the years 2020..2020+MaxYearSpan and three
\* century years
MaxYearSpan == 4

\* A date_t is modelled by its calendar fields <<year, month, day>>.
\* mutant: a leap-year test without the 400-year rule
isleapNo400(y) == (y % 4) = 0 /\ (y % 100) # 0

\* the macro isleap(y)
isleap(y) == (y % 4) = 0 /\ ((y % 100) # 0 \/ (y % 400) = 0)

\* the table m_last_days of calc_lastdayofmonth
m_last_days == <<31, 28, 31, 30, 31, 30, 31, 31, 30, 31, 30, 31>>

\* the host calendar: the number of days of month m of year y
CalendarDays(y, m) ==
    IF m = 2 THEN (IF (y % 400) = 0 \/ ((y % 4) = 0 /\ (y % 100) # 0) THEN 29 ELSE 28)
    ELSE IF m \in {4, 6, 9, 11} THEN 30 ELSE 31

RECURSIVE date_plus_days(_, _)
\* padb_udf::date_plus_days: the date n days after (before, for n < 0) date
date_plus_days(date, n) ==
    LET y == date[1]
        m == date[2]
        d == date[3]
    IN  IF d + n > CalendarDays(y, m)
        THEN date_plus_days(IF m = 12 THEN <<y + 1, 1, 1>> ELSE <<y, m + 1, 1>>,
                            n - (CalendarDays(y, m) - d) - 1)
        ELSE IF d + n < 1
        THEN date_plus_days(IF m = 1 THEN <<y - 1, 12, 31>>
                            ELSE <<y, m - 1, CalendarDays(y, m - 1)>>, n + d)
        ELSE <<y, m, d + n>>

\* padb_udf::extract_year_from_date, extract_month_from_date, extract_day_from_date
extract_year_from_date(date) == date[1]
extract_month_from_date(date) == date[2]
extract_day_from_date(date) == date[3]

\* calc_lastdayofmonth(in_date)
calc_lastdayofmonth(in_date) ==
    LET cyear == extract_year_from_date(in_date)
        cmon == extract_month_from_date(in_date)
        cday == extract_day_from_date(in_date)
    IN  IF isleap(cyear) /\ cmon = 2
        THEN date_plus_days(in_date, 29 - cday)
        ELSE date_plus_days(in_date, m_last_days[cmon] - cday)

\* a scalar argument or result: <<1>> is SQL NULL, <<0>> \o v the value v
NullArg == <<1>>
ValArg(v) == <<0>> \o v

\* last_day(aux, in_date)
last_day(arg) ==
    IF arg[1] = 1 THEN NullArg
    ELSE ValArg(calc_lastdayofmonth(SubSeq(arg, 2, 4)))

\* the years of the calls: century years of both kinds and a run of years
DayYears == {1900, 2000, 2100} \cup {2020 + k : k \in 0..MaxYearSpan}

\* the dates of the host calendar in those years
DayDates ==
    {dt \in DayYears \X (1..12) \X (1..31) : dt[3] <= CalendarDays(dt[1], dt[2])}

InitDay ==
    /\ calc \in {[pc |-> "call", fn |-> "last_day", args |-> a, result |-> <<>>] :
                    a \in {NullArg} \cup {ValArg(dt) : dt \in DayDates}}
    /\ npv = GoodParams(1, 1)
    /\ inType = TypeInt
    /\ catalog = CatalogOf(TypeInt, 2, TRUE, <<>>)
    /\ ser = NoSer
    /\ phase = "plan"
    /\ err = "none"
    /\ aborted = FALSE
    /\ plan = NoPlan
    /\ session = <<>>
    /\ functor = NoFunctor
    /\ store = <<>>
    /\ rowsIn = 0
    /\ grpRows = <<>>
    /\ heap = NoHeap
    /\ workers = NoWorkers

\* the host evaluates last_day on the argument
LastDayCall ==
    /\ calc.pc = "call"
    /\ calc.fn = "last_day"
    /\ calc' = [calc EXCEPT !.pc = "done", !.result = last_day(calc.args)]
    /\ UNCHANGED <<workers, heap, ser, npv, inType, catalog, phase, err, aborted, plan,
                   session, functor, store, rowsIn, grpRows>>

NextDay == LastDayCall

SpecDay == InitDay /\ [][NextDay]_vars

(* ------------- operator<<(std::ostream&, __int128_t) ------------------- *)
\* A 128-bit value is <<neg, a, b, c>>: sign neg (1 if negative) and
\* magnitude a * 10^12 + b * 10^6 + c with b, c < 10^6.
Million == 1000000

\* the six digits of n < 10^6, zeros included
Pad6(n) ==
    Digit(n \div 100000) \o Digit((n \div 10000) % 10) \o Digit((n \div 1000) % 10)
      \o Digit((n \div 100) % 10) \o Digit((n \div 10) % 10) \o Digit(n % 10)

\* ostream << of a long or long long of magnitude a * 10^12 + b * 10^6 + c
PlainDec(a, b, c) ==
    IF a # 0 THEN Dec(a) \o Pad6(b) \o Pad6(c)
    ELSE IF b # 0 THEN Dec(b) \o Pad6(c)
    ELSE Dec(c)

\* bigint > std::numeric_limits<long long>::max() = 9223372 036854 775807
AboveLongLong(x) ==
    \/ x[2] > 9223372
    \/ x[2] = 9223372 /\ x[3] > 36854
    \/ x[2] = 9223372 /\ x[3] = 36854 /\ x[4] > 775807

RECURSIVE StreamOut128(_)
\* operator<<(ostr, bigint): '-' and the negated value for a negative one;
\* above the long long range bigint / 10^12 (through this operator) followed
\* by (long long)(bigint % 10^12); otherwise (long)bigint
StreamOut128(x) ==
    IF x[1] = 1 THEN "-" \o StreamOut128(<<0, x[2], x[3], x[4]>>)
    ELSE IF AboveLongLong(x)
    THEN StreamOut128(<<0, 0, x[2] \div Million, x[2] % Million>>) \o PlainDec(0, x[3], x[4])
    ELSE PlainDec(x[2], x[3], x[4])

\* the limbs the encoded values are drawn from: around the long long
\* maximum, and short and long low parts
HighLimbs == {0, 9223372, 9223373, 92233735}
MidLimbs == {0, 92, 36854}
LowLimbs == {0, 5, 50, 233735, 775807, 775808}

\* the 128-bit values: no negative zero
BigValues ==
    {x \in {0, 1} \X HighLimbs \X MidLimbs \X LowLimbs :
        x[1] = 1 => (x[2] # 0 \/ x[3] # 0 \/ x[4] # 0)}

InitEnc ==
    /\ calc \in {[pc |-> "call", fn |-> "encode", args |-> x \o y, result |-> <<>>] :
                    x \in BigValues, y \in BigValues}
    /\ npv = GoodParams(1, 1)
    /\ inType = TypeNumeric
    /\ catalog = CatalogOf(TypeNumeric, 2, TRUE, <<>>)
    /\ ser = NoSer
    /\ phase = "plan"
    /\ err = "none"
    /\ aborted = FALSE
    /\ plan = NoPlan
    /\ session = <<>>
    /\ functor = NoFunctor
    /\ store = <<>>
    /\ rowsIn = 0
    /\ grpRows = <<>>
    /\ heap = NoHeap
    /\ workers = NoWorkers

\* "keycvt << (vdb_udf::numeric_t) mynumeric" and "key = keycvt.str()" for
\* the two values
EncodeCall ==
    /\ calc.pc = "call"
    /\ calc.fn = "encode"
    /\ calc' = [calc EXCEPT !.pc = "done",
                            !.result = <<StreamOut128(SubSeq(calc.args, 1, 4)),
                                         StreamOut128(SubSeq(calc.args, 5, 8))>>]
    /\ UNCHANGED <<workers, heap, ser, npv, inType, catalog, phase, err, aborted, plan,
                   session, functor, store, rowsIn, grpRows>>

NextEnc == EncodeCall

SpecEnc == InitEnc /\ [][NextEnc]_vars

(* ---------------- normalize_time (src/last-day.cpp) -------------------- *)
\* A timestamp_t or num_microsec_t is a 64-bit two's complement integer,
\* written as its eight bytes, least significant first; an int_t is a
\* 32-bit one and is an integer of the model.
Byte == 256

\* the element of a one-element set: The({body : name \in {expression}})
\* is body with name standing for the value of expression, computed once
The(S) == CHOOSE v \in S : TRUE

\* (num_microsec_t) n of an int_t n: sign extension to 64 bits
num_microsec_t(n) ==
    The({<<m % Byte, (m \div Byte) % Byte, (m \div (Byte * Byte)) % Byte,
           (m \div (Byte * Byte * Byte)) % Byte, ext, ext, ext, ext>> :
            m \in {n}, ext \in {IF n < 0 THEN Byte - 1 ELSE 0}})

\* the carry into byte i of a + b + c, c the carry into byte 1: a lower
\* byte overflows, or c comes in, and every byte between passes it on
CarryInto(a, b, c, i) ==
    \/ \E j \in 1..(i - 1) :
            /\ a[j] + b[j] >= Byte
            /\ \A k \in (j + 1)..(i - 1) : a[k] + b[k] = Byte - 1
    \/ c = 1 /\ \A k \in 1..(i - 1) : a[k] + b[k] = Byte - 1

\* a + b + c in 64 bits
PlusCarry(a, b, c) ==
    LET sum(i) == (a[i] + b[i] + (IF CarryInto(a, b, c, i) THEN 1 ELSE 0)) % Byte
    IN  <<sum(1), sum(2), sum(3), sum(4), sum(5), sum(6), sum(7), sum(8)>>

\* x + y and x - y in 64 bits
Plus(x, y) == The({PlusCarry(a, b, 0) : a \in {x}, b \in {y}})
Minus(x, y) ==
    The({PlusCarry(a, [i \in 1..8 |-> Byte - 1 - b[i]], 1) : a \in {x}, b \in {y}})

\* x < 0, x < y as unsigned and x < y as signed 64-bit integers
Negative(x) == x[8] >= Byte \div 2
Below(x, y) ==
    \E a \in {x}, b \in {y} :
        \E i \in 1..8 : a[i] < b[i] /\ \A j \in (i + 1)..8 : a[j] = b[j]
Less(x, y) ==
    \E a \in {x}, b \in {y} :
        IF Negative(a) # Negative(b) THEN Negative(a) ELSE Below(a, b)

\* x * n in 64 bits for n in 0..Byte, two bytes of x at a time: t1..t4 are
\* the products of the byte pairs with the carry of the pair below
Scale(x, n) ==
    The({The({The({The({The({
        <<t1 % Byte, (t1 \div Byte) % Byte, t2 % Byte, (t2 \div Byte) % Byte,
          t3 % Byte, (t3 \div Byte) % Byte, t4 % Byte, (t4 \div Byte) % Byte>> :
            t4 \in {(a[7] + Byte * a[8]) * n + t3 \div (Byte * Byte)}}) :
            t3 \in {(a[5] + Byte * a[6]) * n + t2 \div (Byte * Byte)}}) :
            t2 \in {(a[3] + Byte * a[4]) * n + t1 \div (Byte * Byte)}}) :
            t1 \in {(a[1] + Byte * a[2]) * n}}) :
            a \in {x}})

\* x * Byte^k in 64 bits
Shift(x, k) == SubSeq(<<0, 0, 0, 0, 0, 0, 0>>, 1, k) \o SubSeq(x, 1, 8 - k)

RECURSIVE TimesFrom(_, _, _, _)
\* x * y from byte i of y on, added to the sum p of the bytes below i
TimesFrom(x, y, i, p) ==
    IF i > 8 THEN p
    ELSE The({TimesFrom(x, y, i + 1, p2) :
                 p2 \in {Plus(p, Shift(Scale(x, y[i]), i - 1))}})

\* x * y in 64 bits
Times(x, y) ==
    The({TimesFrom(a, b, 1, <<0, 0, 0, 0, 0, 0, 0, 0>>) : a \in {x}, b \in {y}})

\* one step of the long division by d: the remainder r of the bytes above
\* takes the byte y; c is the next quotient byte
DivideByte(r, y, d) ==
    The(UNION {{[c |-> c, r |-> Minus(r2, Scale(d, c))] :
                    c \in {CHOOSE n \in 0..(Byte - 1) : Below(r2, Scale(d, n + 1))}} :
                r2 \in {<<y>> \o SubSeq(r, 1, 7)}})

RECURSIVE DivideFrom(_, _, _, _, _)
\* long division of x by d from byte i down, with the quotient bytes q and
\* the remainder r of the bytes above i
DivideFrom(x, d, i, q, r) ==
    IF i = 0 THEN [q |-> q, r |-> r]
    ELSE The({DivideFrom(x, d, i - 1, <<s.c>> \o q, s.r) :
                 s \in {DivideByte(r, x[i], d)}})

\* x / d (field q) and x % d (field r) of num_microsec_t 0 <= x and
\* 0 < d < 2^56, by long division from the highest byte down
Divide(x, d) ==
    The({DivideFrom(a, b, 8, <<>>, <<0, 0, 0, 0, 0, 0, 0, 0>>) : a \in {x}, b \in {d}})

\* (int_t) x: the low 32 bits of x as a signed integer (the conversion of
\* an out-of-range value is modulo 2^32 on the compilers the code builds with)
int_t(x) ==
    The({a[1] + Byte * a[2] + Byte * Byte * a[3]
           + Byte * Byte * Byte * (IF a[4] >= Byte \div 2 THEN a[4] - Byte ELSE a[4]) :
            a \in {x}})

\* #define MICROSECOND ((padb_udf::num_microsec_t) 1000000)
MICROSECOND == num_microsec_t(1000000)

\* padb_udf::microsecondsBetween(in_ts, base_ts)
microsecondsBetween(in_ts, base_ts) == Minus(in_ts, base_ts)

\* the result of a call that ended in aux.throwError
Thrown == <<2>>

\* normalize_time(aux, in_ts, base_ts, interval_spec) on scalar arguments;
\* the locals are computed in the order of the statements
normalize_time(in, base, iv) ==
    IF in[1] = 1 \/ base[1] = 1 \/ iv[1] = 1 THEN NullArg
    ELSE LET in_ts == Tail(in)
             base_ts == Tail(base)
             interval_spec == iv[2]
         IN  IF Less(in_ts, base_ts) THEN Thrown
             ELSE The({
                 IF ts_diff = num_microsec_t(0) THEN ValArg(in_ts)
                 ELSE IF Less(ts_diff, step) THEN ValArg(base_ts)
                 ELSE The({
                     IF nearest_lb_remain = 0 THEN ValArg(in_ts)
                     ELSE The({The({ValArg(ret_ts) :
                         ret_ts \in {Plus(base_ts,
                                          Times(Times(num_microsec_t(interval_spec),
                                                      num_microsec_t(nearest_lb_multiple)),
                                                MICROSECOND))}}) :
                         nearest_lb_multiple \in {int_t(Divide(ts_diff, step).q)}}) :
                     nearest_lb_remain \in {int_t(Divide(ts_diff, step).r)}}) :
                 ts_diff \in {microsecondsBetween(in_ts, base_ts)},
                 step \in {Times(num_microsec_t(interval_spec), MICROSECOND)}})

\* 2^31 and 2^32, the first values past the int_t range and its width
Two31 == Times(num_microsec_t(2^16), num_microsec_t(2^15))
Two32 == Times(num_microsec_t(2^16), num_microsec_t(2^16))

\* the intervals of the calls, in seconds: a second, a minute, two hours
NormIntervals == {1, 60, 7200}

\* the base timestamps of the calls, in microseconds
NormBases == {num_microsec_t(0), num_microsec_t(1500000)}

\* whole intervals between base and input: a few, and for the one-second
\* interval also counts of 2^31 and 2^32 + 1 (68 and 136 years of seconds)
NormMultiples(interval) ==
    {num_microsec_t(k) : k \in 0..MaxSteps}
      \cup (IF interval = 1 THEN {Two31, Plus(Two32, num_microsec_t(1))} ELSE {})

\* microseconds past the last whole interval: none, one, all but one, and
\* 2^32 where the interval is longer than that
NormRemainders(step) ==
    {num_microsec_t(0), num_microsec_t(1), Minus(step, num_microsec_t(1))}
      \cup (IF Below(Two32, step) THEN {Two32} ELSE {})

\* base, input and interval of the calls with base_ts <= in_ts
NormTimes ==
    UNION {UNION {{<<base, Plus(Plus(base, Times(m, Times(num_microsec_t(iv), MICROSECOND))), r), iv>> :
                      r \in NormRemainders(Times(num_microsec_t(iv), MICROSECOND))} :
                  m \in NormMultiples(iv)} :
              base \in NormBases, iv \in NormIntervals}

\* the argument lists <<in_ts, base_ts, interval_spec>> of the calls: input
\* at or after the base, the two exchanged, and each argument null
NormCalls ==
    {<<ValArg(t[2]), ValArg(t[1]), ValArg(<<t[3]>>)>> : t \in NormTimes}
      \cup {<<ValArg(t[1]), ValArg(t[2]), ValArg(<<t[3]>>)>> : t \in NormTimes}
      \cup {<<NullArg, ValArg(num_microsec_t(0)), ValArg(<<1>>)>>,
            <<ValArg(num_microsec_t(0)), NullArg, ValArg(<<1>>)>>,
            <<ValArg(num_microsec_t(0)), ValArg(num_microsec_t(0)), NullArg>>}

InitNorm ==
    /\ calc \in {[pc |-> "call", fn |-> "normalize_time", args |-> a, result |-> <<>>] :
                    a \in NormCalls}
    /\ npv = GoodParams(1, 1)
    /\ inType = TypeInt
    /\ catalog = CatalogOf(TypeInt, 2, TRUE, <<>>)
    /\ ser = NoSer
    /\ phase = "plan"
    /\ err = "none"
    /\ aborted = FALSE
    /\ plan = NoPlan
    /\ session = <<>>
    /\ functor = NoFunctor
    /\ store = <<>>
    /\ rowsIn = 0
    /\ grpRows = <<>>
    /\ heap = NoHeap
    /\ workers = NoWorkers

\* the host evaluates normalize_time on the arguments
NormalizeCall ==
    /\ calc.pc = "call"
    /\ calc.fn = "normalize_time"
    /\ calc' = [calc EXCEPT !.pc = "done",
                            !.result = normalize_time(calc.args[1], calc.args[2],
                                                      calc.args[3])]
    /\ UNCHANGED <<workers, heap, ser, npv, inType, catalog, phase, err, aborted, plan,
                   session, functor, store, rowsIn, grpRows>>

NextNorm == NormalizeCall

SpecNorm == InitNorm /\ [][NextNorm]_vars

(* ============================== claims ================================= *)
\* number of grouping columns, value columns and catalog rows of the session
G == npv.ngrp
V == npv.nval
R == Len(catalog.rows)

\* Describe has succeeded; Start has stored the session data
Described == phase # "plan"
Started == phase \in {"started", "finalized", "destroyed", "shutdown"}

\* the encoded key of every catalog row, and the distinct ones
CatKeys == [i \in 1..R |-> AddKey(catalog.type, catalog.rows[i].key)]
DistinctKeys == {CatKeys[i] : i \in 1..R}

\* the first catalog row that carries key k
FirstRowWith(k) == CHOOSE i \in 1..R : CatKeys[i] = k /\ \A j \in 1..(i - 1) : CatKeys[j] # k

\* the Pivot Key Map a worker restores from the session data
SessionMap == deserialize(NewMapTable, session).m_map_values

\* C4 as stated: after Start the map has one entry per distinct encoded
\* key, its offsets are exactly 0..K-1 for K distinct keys, no two keys
\* share an offset, and offsets follow catalog-row order.
C4_DenseOffsets ==
    Started =>
        LET m == SessionMap
            K == Cardinality(DistinctKeys)
        IN  /\ DOMAIN m = DistinctKeys
            /\ {m[k] : k \in DOMAIN m} = 0..(K - 1)
            /\ \A k1, k2 \in DOMAIN m : k1 # k2 => m[k1] # m[k2]
            /\ \A k1, k2 \in DOMAIN m :
                 FirstRowWith(k1) < FirstRowWith(k2) => m[k1] < m[k2]

\* C4 amended: after Start the map has one entry per distinct encoded key,
\* every key has the ordinal of the first catalog row that carries it, so
\* no two keys share an offset and offsets follow catalog-row order; the
\* offsets are exactly 0..K-1 when no two catalog rows have the same key.
C4_FirstRowOffsets ==
    Started =>
        LET m == SessionMap
            K == Cardinality(DistinctKeys)
        IN  /\ DOMAIN m = DistinctKeys
            /\ \A k \in DOMAIN m : m[k] = FirstRowWith(k) - 1
            /\ \A k1, k2 \in DOMAIN m : k1 # k2 => m[k1] # m[k2]
            /\ \A k1, k2 \in DOMAIN m :
                 FirstRowWith(k1) < FirstRowWith(k2) => m[k1] < m[k2]
            /\ K = R => {m[k] : k \in DOMAIN m} = 0..(K - 1)

\* C4 witness: Start has run on three catalog rows of which the first two
\* carry the same key
C4_Witness ==
    /\ phase = "started"
    /\ R = 3
    /\ CatKeys[1] = CatKeys[2]
    /\ CatKeys[3] # CatKeys[1]

\* the G leading output columns are the group columns, in group_columns order
GroupColumnsFirst ==
    \A i \in 1..G : i <= Len(plan.out) /\ plan.out[i] = CopiedColumn(GrpColsOf(G)[i])

\* C5 as stated: Describe declares G + K*V columns for K distinct keys,
\* the group columns first, then one block of V columns per key in
\* catalog-row order, named from the labels of that key's catalog row.
C5_ColumnsPerDistinctKey ==
    Described =>
        /\ Len(plan.out) = G + Cardinality(DistinctKeys) * V
        /\ GroupColumnsFirst
        /\ \A k \in DistinctKeys : \A c \in 1..V :
             LET b == Cardinality({k2 \in DistinctKeys : FirstRowWith(k2) < FirstRowWith(k)})
             IN  plan.out[G + b * V + c].name = catalog.rows[FirstRowWith(k)].labels[c]

\* C5 amended: Describe declares G + R*V columns for R catalog rows, the
\* group columns first, then for every catalog row in order a block of V
\* columns cloned from the value columns and named from that row's labels.
C5_ColumnsPerCatalogRow ==
    Described =>
        /\ Len(plan.out) = G + R * V
        /\ GroupColumnsFirst
        /\ \A r \in 1..R : \A c \in 1..V :
             plan.out[G + (r - 1) * V + c]
               = AddedColumn(ValColsOf(G, V)[c], catalog.rows[r].labels[c])

\* C5 witness: a described session with three catalog rows, two of them
\* with the same key, and two value columns
C5_Witness ==
    /\ phase = "described"
    /\ R = 3
    /\ V = 2
    /\ Cardinality(DistinctKeys) = 2

\* the last row handed to process in the current group, and its encoded key
LastRow == grpRows[Len(grpRows)]
LastKey == ProcessKey(functor.m_pivotParameters.pivotColType, LastRow[G])

\* the processor has just taken a row of the current group without error
RowDone == functor.alive /\ grpRows # <<>> /\ err = "none"

\* the row just processed is found in block j (0-based) of the output row,
\* and Describe named that block from the labels of catalog row j
WrittenToBlockOfRow(j) ==
    \A c \in 0..(V - 1) :
        /\ functor.m_out_rd[G + j * V + c] = LastRow[ValColsOf(G, V)[c + 1]]
        /\ plan.out[G + j * V + c + 1].name = catalog.rows[j + 1].labels[c + 1]

\* C6 as stated: the key of catalog row i (0-based) is mapped to offset i,
\* and a processed row with that key writes value column c to output
\* column G + i*V + c, the column Describe named with label c+1 of row i.
C6_OffsetIsRowOrdinal ==
    /\ Started => \A i \in 1..R : SessionMap[CatKeys[i]] = i - 1
    /\ RowDone => \A i \in 1..R : CatKeys[i] = LastKey => WrittenToBlockOfRow(i - 1)

\* C6 amended: the key of catalog row i is mapped to the ordinal j of the
\* first catalog row with the same encoded key, and a processed row with
\* that key writes value column c to output column G + j*V + c, the column
\* Describe named with label c+1 of catalog row j.
C6_OffsetIsFirstRowOrdinal ==
    /\ Started => \A i \in 1..R : SessionMap[CatKeys[i]] = FirstRowWith(CatKeys[i]) - 1
    /\ RowDone => /\ LastKey \in DistinctKeys
                  /\ WrittenToBlockOfRow(FirstRowWith(LastKey) - 1)

\* C6 witness: a row was written to the third block while the first two
\* catalog rows carry one key
C6_Witness ==
    /\ RowDone
    /\ R = 3
    /\ CatKeys[1] = CatKeys[2]
    /\ LastKey = CatKeys[3]
    /\ LastKey # CatKeys[1]

\* C7: deserializing what serialize wrote into a fresh map yields the same
\* (key, offset) entries and the same pivot-column and value-column type
\* and length, for every map including the empty one.
C7_RoundTrip ==
    ser.pc = "restored" =>
        /\ ser.dst.m_map_values = ser.src.m_map_values
        /\ ser.dst.m_pivotcol_type = ser.src.m_pivotcol_type
        /\ ser.dst.m_pivotcol_len = ser.src.m_pivotcol_len
        /\ ser.dst.m_value_type = ser.src.m_value_type
        /\ ser.dst.m_value_len = ser.src.m_value_len

\* C7 witness: a map of three entries with value-column metadata restored
C7_Witness ==
    /\ ser.pc = "restored"
    /\ Cardinality(DOMAIN ser.src.m_map_values) = 3
    /\ ser.src.m_value_type = TypeVarChar
    /\ ser.src.m_pivotcol_type = TypeInt

(* ------------------------- row processing claims ----------------------- *)
\* the encoded key of an input row, as process computes it
RowKey(rd) == ProcessKey(inType, rd[G])

\* the rows of group grp (a sequence of input rows) that carry key k
RowsWithKey(grp, k) == {i \in 1..Len(grp) : grp[i][G] # NullCell /\ RowKey(grp[i]) = k}

\* the largest element of a non-empty set of numbers
Last(S) == CHOOSE i \in S : \A j \in S : j <= i

\* every row of the group has a non-null pivot value whose key is in map m
GroupIsMapped(grp, m) ==
    \A i \in 1..Len(grp) : grp[i][G] # NullCell /\ RowKey(grp[i]) \in DOMAIN m

\* row is the wide row of group grp under map m: the group columns of the
\* first row, then per key the value columns of the last row with that key,
\* or nulls
WideRowOf(row, grp, m) ==
    /\ \A slot \in 0..(G - 1) : row[slot] = grp[1][GrpColsOf(G)[slot + 1]]
    /\ \A k \in DOMAIN m : \A c \in 0..(V - 1) :
         row[G + m[k] * V + c]
           = IF RowsWithKey(grp, k) = {} THEN NullCell
             ELSE grp[Last(RowsWithKey(grp, k))][ValColsOf(G, V)[c + 1]]

\* C1: for any group whose rows all have a non-null pivot value with a key
\* in the map (catalog without duplicate keys), the emitted row holds the
\* group columns of the group's first row and, per key offset o and value
\* column c, in slot G + o*V + c the value of the last row of the group
\* with that key, or null if the group has no row with that key.
C1_EmittedRow ==
    \A i \in 1..Len(store) :
        ( /\ store[i].group # <<>>
          /\ Cardinality(DistinctKeys) = R
          /\ GroupIsMapped(store[i].group, SessionMap) )
        => WideRowOf(store[i].row, store[i].group, SessionMap)

\* a step of process: one more row has been handed to the processor
ProcessStep == rowsIn' = rowsIn + 1

\* the row that step handed in
StepRow == grpRows'[Len(grpRows')]

\* C2: a successfully processed row that is not the first row of its group
\* overwrites exactly the V slots G + o*V .. G + o*V + V-1 of its own key
\* offset o with its value columns and leaves every other slot unchanged.
C2_Frame ==
    [][ (ProcessStep /\ err' = "none" /\ grpRows # <<>>) =>
          LET o == functor.m_map.m_map_values[RowKey(StepRow)]
          IN  \A slot \in DOMAIN functor.m_out_rd :
                IF slot >= G + o * V /\ slot < G + o * V + V
                THEN functor'.m_out_rd[slot] = StepRow[ValColsOf(G, V)[slot - (G + o * V) + 1]]
                ELSE functor'.m_out_rd[slot] = functor.m_out_rd[slot] ]_vars

\* C2 witness: the second row of a group went to another key block than
\* the first, with two value columns
C2_Witness ==
    /\ RowDone
    /\ Len(grpRows) = 2
    /\ V = 2
    /\ RowKey(grpRows[1]) # RowKey(grpRows[2])

\* C3: from the end of the first processed row of a group until the flush,
\* every pivot slot Describe declared holds null or a value copied from a
\* processed row of the same group whose key maps to that slot's block;
\* none is left uninitialised, for any catalog result.
C3_DeclaredSlotsInitialised ==
    (functor.alive /\ grpRows # <<>>) =>
        \A slot \in G..(Len(plan.out) - 1) :
            \/ functor.m_out_rd[slot] = NullCell
            \/ \E i \in 1..Len(grpRows) : \E c \in 0..(V - 1) :
                 /\ grpRows[i][G] # NullCell
                 /\ RowKey(grpRows[i]) \in DOMAIN functor.m_map.m_map_values
                 /\ slot = G + functor.m_map.m_map_values[RowKey(grpRows[i])] * V + c
                 /\ functor.m_out_rd[slot] = grpRows[i][ValColsOf(G, V)[c + 1]]

\* no value column of the step's row has been copied: every pivot slot is
\* as before, or was set to null by the first-row branch
NoValueCopied ==
    \A slot \in DOMAIN functor.m_out_rd :
        slot >= G =>
            \/ functor'.m_out_rd[slot] = functor.m_out_rd[slot]
            \/ functor.m_first_time /\ functor'.m_out_rd[slot] = NullCell

\* C8: a row whose pivot column is null makes process fail with
\* NullPivotKey without copying any value column of the row, and no output
\* row is emitted afterwards.
C8_NullPivotKey ==
    [][ /\ (ProcessStep /\ StepRow[G] = NullCell) =>
              (err' = "NullPivotKey" /\ NoValueCopied)
        /\ err = "NullPivotKey" => store' = store ]_vars

\* C8 witness: the second row of a group had a null pivot column
C8_Witness ==
    /\ err = "NullPivotKey"
    /\ Len(grpRows) = 2
    /\ LastRow[G] = NullCell
    /\ grpRows[1][G] # NullCell

OwnValuesOnly(row, grp) ==
    /\ \A slot \in 0..(G - 1) : row[slot] = grp[1][GrpColsOf(G)[slot + 1]]
    /\ \A slot \in DOMAIN row :
         slot >= G =>
            \/ row[slot] = NullCell
            \/ \E i \in 1..Len(grp) : \E c \in 1..V : row[slot] = grp[i][ValColsOf(G, V)[c]]

\* C10: after a flush the processor is back in AWAITING_FIRST_ROW, so the
\* first row after the flush re-copies the group columns and resets all
\* pivot slots, and no value of the previous group appears in the next
\* emitted row.
C10_NewGroupAfterFlush ==
    /\ (functor.alive /\ phase = "started" /\ store # <<>> /\ grpRows = <<>>)
         => functor.m_first_time
    /\ \A i \in 2..Len(store) :
         (store[i].group # <<>> /\ Cardinality(DistinctKeys) = R)
           => OwnValuesOnly(store[i].row, store[i].group)

(* --------------------------- lifecycle claims -------------------------- *)
\* C11: once Abort is signalled, the Abort step itself and every later step
\* put no row into the row store; the accumulator row allocated at Create
\* is never freed twice, and when Destroy completes after the Abort it has
\* been freed exactly once.
C11_AbortReleasesWithoutEmitting ==
    [][ /\ (aborted \/ aborted') => store' = store
        /\ heap'.frees <= heap'.allocs
        /\ (aborted /\ functor.alive /\ ~functor'.alive)
             => heap' = [allocs |-> 1, frees |-> 1] ]_vars

\* C11 witness: a processor that had taken rows and put none was aborted
\* and then destroyed
C11_Witness ==
    /\ aborted
    /\ phase = "destroyed"
    /\ rowsIn >= 1
    /\ err = "none"
    /\ store = <<>>
    /\ heap = [allocs |-> 1, frees |-> 1]

\* a named parameter is missing or of the wrong kind
BadParams ==
    \/ npv.pivotcol # "colref"
    \/ npv.groupcol # "colref"
    \/ npv.column_list # "string"
    \/ npv.pivotval # "colref"

\* C12: with a missing pivotcol, groupcol, column_list or pivotval, a
\* pivotcol or groupcol that is no column reference, or a constant
\* pivotval, every command fails with a parameter error and leaves the
\* schema undeclared, the session state unwritten and no processor
\* allocated.
C12_ParameterErrors ==
    [][ BadParams =>
          /\ err' = "ParameterError"
          /\ plan' = NoPlan
          /\ session' = <<>>
          /\ functor' = NoFunctor
          /\ heap' = NoHeap ]_vars

(* ------------------------- key encoding claims ------------------------- *)
\* the type tags the switch statements of add and process name
SupportedTypes ==
    {TypeTimeStamp, TypeBigInt, TypeNumeric, TypeInt, TypeDate, TypeSmallInt,
     TypeFloat4, TypeFloat8, TypeVarChar, TypeBpChar}

\* C13: with a key type outside the supported set, Start and row processing
\* fail with UnsupportedKeyType: Start stores no map built from keys of
\* such a type, the map never holds an entry with the empty key, and no
\* row is processed successfully through the empty key.
C13_UnsupportedKeyType ==
    /\ (Started /\ R > 0) => catalog.type \in SupportedTypes
    /\ Started => "" \notin DOMAIN SessionMap
    /\ RowDone => (inType \in SupportedTypes /\ LastKey # "")

\* C14: when the catalog query yields zero rows, Start fails with
\* SchemaError and stores no Pivot Key Map as session state, and no row is
\* ever handed to a processor whose map is empty.
C14_EmptyCatalogRejected ==
    /\ (R = 0 /\ phase # "plan") =>
          /\ ~Started
          /\ session = <<>>
          /\ (phase = "described" /\ err # "none") => err = "SchemaError"
    /\ (functor.alive /\ rowsIn > 0) => getMapSize(functor.m_map) > 0

(* --------------------------- worker claims ----------------------------- *)
RECURSIVE Replay(_, _, _, _, _)
\* a processor f run alone from row i of rows on, flushing where cuts say:
\* the processor it ends as and the rows it puts
Replay(f, rows, cuts, i, puts) ==
    IF cuts # <<>> /\ Head(cuts) = i
    THEN LET fl == flush(f)
         IN  Replay(fl.f, rows, Tail(cuts), i, Append(puts, fl.put))
    ELSE IF i < Len(rows)
    THEN LET r == process(f, rows[i + 1])
         IN  Replay(r.f, rows, cuts, i + 1, puts)
    ELSE [f |-> f, puts |-> puts]

\* worker w's partition handled by a processor that runs alone
Alone(w) ==
    Replay(NewPivotClass(validate(npv, inType, FALSE).pp),
           workers[w].rows, workers[w].cuts, 0, <<>>)

\* every live processor holds the map Start stored, and every worker has
\* put, and holds, what it would running alone
WorkersIsolated ==
    \A w \in Workers :
        /\ workers[w].functor.alive =>
              /\ workers[w].functor.m_map = deserialize(NewMapTable, session)
              /\ workers[w].functor = Alone(w).f
        /\ workers[w].pc # "none" => workers[w].puts = Alone(w).puts

\* C15: once Start has stored the Pivot Key Map, whatever steps the workers
\* have interleaved (process, flush, Finalize, Destroy, and Abort or
\* Shutdown), the stored map and the map every processor holds are still
\* the map Start built, entries and type metadata, and every worker has
\* emitted for its partition the rows it would emit running alone.
C15_WorkersShareMapReadOnly ==
    (workers # NoWorkers /\ Started) =>
        /\ deserialize(NewMapTable, session) = StartMap(catalog)
        /\ WorkersIsolated

\* C15 witness: two workers have interleaved their rows, and both have put
\* their row
C15_Witness ==
    /\ workers # NoWorkers
    /\ \A w \in 1..2 : Len(workers[w].rows) = 1 /\ Len(workers[w].puts) = 1
    /\ workers[1].puts # workers[2].puts

(* ---------------------------- last_day claim --------------------------- *)
\* C16: for a non-null date in February of year y, last_day returns the
\* date of the same month and year with day 29 if y is divisible by 4 and
\* not by 100, or divisible by 400, and day 28 otherwise; for any other
\* month it returns that month's last calendar day (30 for April, June,
\* September and November, 31 otherwise).
C16_LastDay ==
    (calc.pc = "done" /\ calc.fn = "last_day" /\ calc.args[1] = 0) =>
        LET y == calc.args[2]
            m == calc.args[3]
            leap == (y % 4 = 0 /\ y % 100 # 0) \/ y % 400 = 0
            last == IF m = 2 THEN (IF leap THEN 29 ELSE 28)
                    ELSE IF m \in {4, 6, 9, 11} THEN 30 ELSE 31
        IN  calc.result = <<0, y, m, last>>

\* C16 witness: last_day has answered for a day of February 2000, a
\* century year that is a leap year
C16_Witness ==
    /\ calc.pc = "done"
    /\ calc.fn = "last_day"
    /\ calc.args = <<0, 2000, 2, 10>>
    /\ calc.result = <<0, 2000, 2, 29>>

(* ------------------------ duplicate catalog keys ----------------------- *)
\* the catalog rows that carry key k, and the keys more than one row carries
RowsWith(k) == {i \in 1..R : CatKeys[i] = k}
DuplicateKeys == {k \in DistinctKeys : Cardinality(RowsWith(k)) > 1}

\* C17 as stated: when two catalog rows encode to the same key, the map
\* after Start holds for that key the ordinal of the later row.
C17_LaterRowWins ==
    Started => \A k \in DuplicateKeys : SessionMap[k] = Last(RowsWith(k)) - 1

\* C17 amended: when two catalog rows encode to the same key, the map
\* after Start holds for that key the ordinal of the earliest row that
\* carries it; the later rows leave the entry as it is.
C17_EarlierRowWins ==
    Started => \A k \in DuplicateKeys :
        /\ k \in DOMAIN SessionMap
        /\ \A i \in RowsWith(k) : SessionMap[k] <= i - 1
        /\ \E i \in RowsWith(k) : SessionMap[k] = i - 1

\* C17 witness: Start has run on three catalog rows of which the first and
\* the third carry the same key
C17_Witness ==
    /\ Started
    /\ R = 3
    /\ CatKeys[1] = CatKeys[3]
    /\ CatKeys[2] # CatKeys[1]

(* ------------------------- slot addressing claims ---------------------- *)
\* the offset the map of the processor holds for the row of the step
StepOffset == functor.m_map.m_map_values[RowKey(StepRow)]

\* the step has processed a row whose key the map holds
FoundStep == ProcessStep /\ err' = "none"

\* the step writes no slot at or beyond index bound, and none below G
\* unless it is the first-row copy of the grouping columns
WritesWithin(bound) ==
    \A slot \in DOMAIN functor.m_out_rd :
        (slot >= bound \/ (slot < G /\ ~functor.m_first_time))
          => functor'.m_out_rd[slot] = functor.m_out_rd[slot]

\* C18 as stated: every slot a found row writes lies in G .. G + K*V - 1
\* for K map entries, the range the first row of the group set to null,
\* and OffsetRangeError is never raised.
C18_SlotsWithinInitialised ==
    [][ /\ ProcessStep => err' # "OffsetRangeError"
        /\ FoundStep =>
             /\ \A c \in 0..(V - 1) :
                  /\ G <= G + StepOffset * V + c
                  /\ G + StepOffset * V + c < G + getMapSize(functor.m_map) * V
             /\ WritesWithin(G + getMapSize(functor.m_map) * V) ]_vars

\* C18 amended: every slot a found row writes lies in G .. G + R*V - 1 for
\* R catalog rows, the pivot slots Describe declared, and holds the row's
\* value column afterwards; when no two catalog rows share a key this is
\* the range G .. G + K*V - 1 the first row set to null; OffsetRangeError
\* is never raised.
C18_SlotsWithinDeclared ==
    [][ /\ ProcessStep => err' # "OffsetRangeError"
        /\ FoundStep =>
             /\ \A c \in 0..(V - 1) :
                  /\ G <= G + StepOffset * V + c
                  /\ G + StepOffset * V + c < G + R * V
                  /\ G + StepOffset * V + c \in DOMAIN functor.m_out_rd
                  /\ functor'.m_out_rd[G + StepOffset * V + c]
                       = StepRow[ValColsOf(G, V)[c + 1]]
             /\ WritesWithin(G + R * V)
             /\ Cardinality(DistinctKeys) = R
                  => WritesWithin(G + getMapSize(functor.m_map) * V) ]_vars

\* C18 witness: with two value columns and the catalog keys of rows 1 and
\* 2 equal, a row with the key of row 3 was copied into the third block
C18_Witness ==
    /\ RowDone
    /\ V = 2
    /\ R = 3
    /\ CatKeys[1] = CatKeys[2]
    /\ LastKey = CatKeys[3]
    /\ LastKey # CatKeys[1]
    /\ functor.m_out_rd[G + 2 * V + 1] = LastRow[ValColsOf(G, V)[2]]

(* ------------------------ encoder agreement claim ---------------------- *)
\* the data of catalog column 0
CatData == {catalog.rows[i].key : i \in 1..R}

\* C19: a processor encodes a row's pivot value with the type tag recorded
\* in the map (the tag Start encoded catalog column 0 with), so a row whose
\* pivot value occurs as a catalog key gets the key string inserted at
\* Start and its lookup succeeds.
C19_SameTypeTag ==
    /\ functor.alive =>
          functor.m_pivotParameters.pivotColType = functor.m_map.m_pivotcol_type
    /\ (functor.alive /\ grpRows # <<>> /\ LastRow[G] \in CatData) =>
          /\ LastKey = AddKey(catalog.type, LastRow[G])
          /\ err # "PivotKeyNotFound"

(* ------------------------ encoder injectivity -------------------------- *)
\* C20: two distinct 128-bit integer values, negative ones and ones above
\* the signed 64-bit maximum included, are encoded to different key
\* strings.
C20_EncoderInjective ==
    (calc.pc = "done" /\ calc.fn = "encode") =>
        (SubSeq(calc.args, 1, 4) # SubSeq(calc.args, 5, 8)
           => calc.result[1] # calc.result[2])

(* --------------------------- Finalize claim ---------------------------- *)
\* C21: a row is put into the row store only if the processor has taken at
\* least one input row since Create; a processor that reaches Finalize
\* while still awaiting its first row emits nothing.
C21_FinalizeNeedsRow ==
    /\ store # <<>> => rowsIn > 0
    /\ (phase = "finalized" /\ rowsIn = 0) => store = <<>>

(* ------------------------ normalize_time claim ------------------------- *)
\* C22: for non-null arguments with base_ts <= in_ts and interval_spec > 0
\* seconds, normalize_time returns base_ts + k * interval_spec * 1,000,000
\* microseconds for the largest integer k >= 0 for which that value is
\* <= in_ts: the result is at or after base_ts, a whole number of intervals
\* from it, and result <= in_ts < result + one interval, also when the
\* remainder or the quotient of the microsecond difference by the interval
\* does not fit in a 32-bit integer.
C22_NormalizeFloors ==
    (/\ calc.pc = "done"
     /\ calc.fn = "normalize_time"
     /\ \A a \in 1..3 : calc.args[a][1] = 0) =>
        LET in_ts == Tail(calc.args[1])
            base_ts == Tail(calc.args[2])
            interval_spec == calc.args[3][2]
            step == Times(num_microsec_t(interval_spec), MICROSECOND)
            ret_ts == Tail(calc.result)
        IN  (~Less(in_ts, base_ts) /\ interval_spec > 0) =>
                /\ calc.result[1] = 0
                /\ ~Less(ret_ts, base_ts)
                /\ ~Less(in_ts, ret_ts)
                /\ Less(in_ts, Plus(ret_ts, step))
                /\ Divide(Minus(ret_ts, base_ts), step).r = num_microsec_t(0)

====
